---------------------------- MODULE Spec2Model ----------------------------
(***************************************************************************)
(* ConvGemm (core/src/ops/nn/conv/conv_gemm.rs): grouped convolution as a  *)
(* sequence of matrix products, one per (batch, group) tile, scattered     *)
(* into the output tensor, with an optional bias added at the end.         *)
(*                                                                         *)
(* Tensors are modelled as their storage: a function from the flat offset  *)
(* (row-major, as ndarray lays out an owned array) to the element.  The    *)
(* full output shape is [N, C, S] for NCHW and [N, S, C] for NHWC, the     *)
(* spatial axes being flattened into one axis of extent S.  Elements are   *)
(* small integers, which f32 represents and multiplies exactly.            *)
(***************************************************************************)
EXTENDS Integers, Sequences, FiniteSets, TLC

\* Largest group count, batch count, m, k and n explored.
MaxDim == 2
\* Largest seed of the element values of the kernel and of the mega-matrix.
MaxSeed == 1
\* Largest number of evaluations of one ConvGemm in a row.
MaxCalls == 3

VARIABLES
    self,          \* the ConvGemm value: the fields of the struct
    mega_matrix,   \* the argument of the evaluation in progress
    pc,            \* where conv_gemm stands: idle, loop, bias, ret, or how it ended:
                   \* ok, err (an Err returned), panic, segv
    i, g,          \* the loop indices of conv_gemm
    output,        \* storage of the output tensor
    c_panel,       \* storage of the scratch panel
    written,       \* per output element, how many times the scatter assigned it
    heap,          \* what this evaluation finds in memory it never wrote
    tiles,         \* tiles multiplied and scattered so far in this evaluation
    biasAdds,      \* [n |-> bias additions so far, at |-> value of tiles at the last one]
    ncalls,        \* evaluations finished so far
    first, last    \* the first and the latest finished evaluation:
                   \* [self, mega, status, out]

vars == <<self, mega_matrix, pc, i, g, output, c_panel, written, heap, tiles,
          biasAdds, ncalls, first, last>>
calls == <<ncalls, first, last>>

Dims == 1..MaxDim
Seeds == 0..MaxSeed
DataFormat == {"NCHW", "NHWC"}
\* Contents an uninitialized allocation may hold.
Junk == {0, 1000}

\* ---------------------------------------------------------------- values

KernelVal(seed, x) == 1 + (seed + 1) * x
MegaVal(seed, x) == 2 + seed + x
BiasVal(c) == 100 * (c + 1)

\* One departure of a dimension from the shape the fields m, k, n, group and
\* the batch count call for; the derived constructor checks none of them.
NoFault == [dim |-> "none", d |-> 0]
Faults == {NoFault} \cup
          [dim : {"oc", "on", "os", "kr", "kc", "mr", "mc"}, d : {-1, 1}]
Dl(f, dim) == IF f.dim = dim THEN f.d ELSE 0

\* ConvGemm::new: the fields as given, nothing validated.
\* The kernel rows of the groups in kp hold other weights (each one more).
new(fmt, group, batch, m, k, n, f, seed, kp, hasBias) ==
    LET oc == m * group + Dl(f, "oc")
        kr == m * group + Dl(f, "kr")
        kc == k + Dl(f, "kc")
    IN  [ fmt    |-> fmt,
          n_dim  |-> batch,
          full_output_shape |->
              [n |-> batch + Dl(f, "on"), c |-> oc, s |-> n + Dl(f, "os")],
          m |-> m, k |-> k, n |-> n,
          rows |-> kr, cols |-> kc,
          kernel |-> [x \in 0..(kr * kc - 1) |->
                        KernelVal(seed, x) +
                        (IF kc > 0 /\ (x \div kc) \div m \in kp
                         THEN 1 ELSE 0)],
          bias  |-> [some |-> hasBias, data |-> [c \in 0..(oc - 1) |-> BiasVal(c)]],
          group |-> group ]

\* The mega-matrix an im2col step hands over: rows x cols, standard layout.
\* The columns of the tiles in tp (tile g + i * group) hold other data (each
\* element one more).
Mega(cg, f, seed, tp) ==
    LET r == cg.k + Dl(f, "mr")
        c == cg.n * cg.group * cg.n_dim + Dl(f, "mc")
    IN  [ rows |-> r, cols |-> c,
          data |-> [x \in 0..(r * c - 1) |->
                      MegaVal(seed, x) +
                      (IF c > 0 /\ (x % c) \div cg.n \in tp
                       THEN 1 ELSE 0)] ]

\* ---------------------------------------------------------------- layout

OutLen(cg) == cg.full_output_shape.n * cg.full_output_shape.c * cg.full_output_shape.s

\* Storage offset of the element at batch b, channel c, spatial position s.
Offset(cg, b, c, s) ==
    IF cg.fmt = "NCHW"
    THEN (b * cg.full_output_shape.c + c) * cg.full_output_shape.s + s
    ELSE (b * cg.full_output_shape.s + s) * cg.full_output_shape.c + c

co_per_group(cg) == cg.full_output_shape.c \div cg.group

\* Slips in the tile addressing: tiles taken group-major, and the batch index
\* left out.
mm_offset_group_major(cg, ii, gg) == cg.n * (ii + (gg * cg.n_dim))
mm_offset_no_batch(cg, ii, gg) == cg.n * gg

mm_offset(cg, ii, gg) == cg.n * (gg + (ii * cg.group))

\* Slip: the channel range not moved with the group.
ChanLoFirstGroup(cg, gg) == 0

\* First channel of the output subview of group gg.
ChanLo(cg, gg) == gg * co_per_group(cg)

\* Number of elements of the output subview of a tile.
SubLen(cg) == co_per_group(cg) * cg.full_output_shape.s

\* Storage offset of the x-th element of the subview (batch ii, the channels
\* of group gg) in the subview's own iteration order.
SubCell(cg, ii, gg, x) ==
    IF cg.fmt = "NCHW"
    THEN Offset(cg, ii, ChanLo(cg, gg) + (x \div cg.full_output_shape.s),
                x % cg.full_output_shape.s)
    ELSE Offset(cg, ii, ChanLo(cg, gg) + (x % co_per_group(cg)),
                x \div co_per_group(cg))

\* Slip: the panel walked in its own order, as a reshape would.
PanelTNaive(cg, x) == x

\* Panel offset of the x-th element of c_panel.t().iter(): the (n, m) view
\* walked row by row, that is the panel walked column by column.
PanelT(cg, x) == (x % cg.m) * cg.n + (x \div cg.m)

\* Panel offset of the x-th element of c_panel.view().into_shape(shape).
PanelReshaped(cg, x) == x

\* Panel offset paired with the x-th element of the subview.
PanelSrc(cg, x) == IF cg.fmt = "NHWC" THEN PanelT(cg, x) ELSE PanelReshaped(cg, x)

\* Elements the scatter copies: zip stops at the shorter side, assign takes all.
CopyLen(cg) ==
    IF cg.fmt = "NHWC"
    THEN (IF SubLen(cg) < cg.m * cg.n THEN SubLen(cg) ELSE cg.m * cg.n)
    ELSE SubLen(cg)

\* into_shape fails unless the element counts agree.
ReshapeFails(cg) == cg.fmt = "NCHW" /\ cg.m * cg.n # SubLen(cg)

\* ---------------------------------------------------------------- mat_mul

\* A read through a raw pointer: the element when the offset is inside the
\* allocation, whatever lies there otherwise.
Load(buf, off, junk) == IF off \in DOMAIN buf THEN buf[off] ELSE junk

\* Slip: the kernel not sliced by group.
APtrFirstGroup(cg, gg) == 0

APtr(cg, gg) == co_per_group(cg) * gg * cg.cols
BPtr(cg, ii, gg) == mm_offset(cg, ii, gg)

RECURSIVE Dot(_, _, _, _, _, _, _)
Dot(cg, mm, a, b, kk, junk, acc) ==
    IF kk = cg.k THEN acc
    ELSE Dot(cg, mm, a, b, kk + 1, junk,
             acc + Load(cg.kernel, a + kk, junk) * Load(mm.data, b + kk * mm.cols, junk))

\* Slip: the product added to what the panel held.
MatMulAccumulate(cg, mm, ii, gg, old, junk) ==
    [x \in 0..(cg.m * cg.n - 1) |->
        Dot(cg, mm, APtr(cg, gg) + (x \div cg.n) * cg.cols,
            BPtr(cg, ii, gg) + (x % cg.n), 0, junk, old[x])]

\* tract_linalg::mat_mul_f32 with the strides of a, b and c_panel: every
\* element of the panel is overwritten with the product.
MatMul(cg, mm, ii, gg, old, junk) ==
    [x \in 0..(cg.m * cg.n - 1) |->
        Dot(cg, mm, APtr(cg, gg) + (x \div cg.n) * cg.cols,
            BPtr(cg, ii, gg) + (x % cg.n), 0, junk, 0)]

\* Does the product read outside the kernel or the mega-matrix?
ReadsOutside(cg, mm, ii, gg) ==
    \E r \in 0..(cg.m - 1), s \in 0..(cg.n - 1), kk \in 0..(cg.k - 1) :
        \/ APtr(cg, gg) + r * cg.cols + kk \notin DOMAIN cg.kernel
        \/ BPtr(cg, ii, gg) + s + kk * mm.cols \notin DOMAIN mm.data

\* A slice_axis out of bounds panics.
SlicePanics(cg, mm, ii, gg) ==
    \/ ii + 1 > cg.full_output_shape.n
    \/ (gg + 1) * co_per_group(cg) > cg.full_output_shape.c
    \/ co_per_group(cg) * (gg + 1) > cg.rows
    \/ mm_offset(cg, ii, gg) + cg.n > mm.cols

\* ---------------------------------------------------------------- scatter

\* The copy of the panel into the subview, element x onwards:
\* for_each(|(o, c)| *o = *c), and assign, which copies in the same order.
RECURSIVE Scatter(_, _, _, _, _, _)
Scatter(cg, ii, gg, out, panel, x) ==
    IF x >= CopyLen(cg) THEN out
    ELSE Scatter(cg, ii, gg,
                 [out EXCEPT ![SubCell(cg, ii, gg, x)] = panel[PanelSrc(cg, x)]],
                 panel, x + 1)

\* The same walk, counting the assignments each element receives.
RECURSIVE Mark(_, _, _, _, _)
Mark(cg, ii, gg, w, x) ==
    IF x >= CopyLen(cg) THEN w
    ELSE Mark(cg, ii, gg, [w EXCEPT ![SubCell(cg, ii, gg, x)] = @ + 1], x + 1)

\* output += &bias, the bias broadcast along batch and space.
AddAssign(cg, out) ==
    [c \in DOMAIN out |->
        out[c] + cg.bias.data[
            IF cg.fmt = "NCHW"
            THEN (c \div cg.full_output_shape.s) % cg.full_output_shape.c
            ELSE c % cg.full_output_shape.c]]

\* Slip: the batch loop left one index early.
LoopDoneEarly(cg, ii) == ii = cg.n_dim - 1

\* The loops of conv_gemm are over once i has run through the batch.
LoopDone(cg, ii) == ii = cg.n_dim

\* ---------------------------------------------------------------- actions

Running == pc \in {"loop", "bias", "ret"}

\* eval / conv_gemm up to the loops: the output and the panel are allocated
\* uninitialized.
Eval(megas, limit) ==
    /\ ~Running
    /\ ncalls < limit
    /\ \E mm \in megas, junk \in Junk :
        /\ mega_matrix' = mm
        /\ heap' = junk
        /\ output' = [c \in 0..(OutLen(self) - 1) |-> junk]
        /\ c_panel' = [x \in 0..(self.m * self.n - 1) |-> junk]
        /\ written' = [c \in 0..(OutLen(self) - 1) |-> 0]
    /\ pc' = "loop"
    /\ i' = 0 /\ g' = 0
    /\ tiles' = 0
    /\ biasAdds' = [n |-> 0, at |-> 0]
    /\ UNCHANGED <<self, calls>>

\* conv_gemm is left with a status: the caller has the result, the locals
\* are dropped.
Finish(status, out) ==
    LET rec == [self |-> self, mega |-> mega_matrix, status |-> status, out |-> out]
    IN  /\ pc' = status
        /\ ncalls' = ncalls + 1
        /\ first' = IF ncalls = 0 THEN rec ELSE first
        /\ last' = rec
        /\ output' = <<>>
        /\ c_panel' = <<>>
        /\ heap' = 0
        /\ i' = 0 /\ g' = 0
        /\ UNCHANGED <<self, mega_matrix, written, tiles, biasAdds>>

\* One pass through the body of the loops.
Tile ==
    /\ pc = "loop"
    /\ IF SlicePanics(self, mega_matrix, i, g)
       THEN Finish("panic", <<>>)
       ELSE \E how \in (IF ReadsOutside(self, mega_matrix, i, g)
                        THEN {"read", "segv"} ELSE {"ok"}) :
            IF how = "segv"
            THEN Finish("segv", <<>>)
            ELSE LET panel == MatMul(self, mega_matrix, i, g, c_panel, heap)
                 IN  IF ReshapeFails(self)
                     THEN Finish("err", <<>>)
                     ELSE /\ c_panel' = panel
                          /\ output' = Scatter(self, i, g, output, panel, 0)
                          /\ written' = Mark(self, i, g, written, 0)
                          /\ tiles' = tiles + 1
                          /\ g' = (g + 1) % self.group
                          /\ i' = IF g + 1 = self.group THEN i + 1 ELSE i
                          /\ pc' = IF g + 1 = self.group /\ LoopDone(self, i + 1)
                                   THEN "bias" ELSE "loop"
                          /\ UNCHANGED <<self, mega_matrix, heap, biasAdds, calls>>

\* if let Some(ref bias) = self.bias { output += &bias; }
AddBias ==
    /\ pc = "bias"
    /\ IF self.bias.some
       THEN /\ output' = AddAssign(self, output)
            /\ biasAdds' = [n |-> biasAdds.n + 1, at |-> tiles]
       ELSE UNCHANGED <<output, biasAdds>>
    /\ pc' = "ret"
    /\ UNCHANGED <<self, mega_matrix, i, g, c_panel, written, heap, tiles, calls>>

\* Ok(output)
Return ==
    /\ pc = "ret"
    /\ Finish("ok", output)

\* ---------------------------------------------------------------- one call

NoCall == [self |-> <<>>, mega |-> <<>>, status |-> "none", out |-> <<>>]

InitVars(cg, mm) ==
    /\ self = cg
    /\ mega_matrix = mm
    /\ pc = "idle"
    /\ i = 0 /\ g = 0
    /\ output = <<>>
    /\ c_panel = <<>>
    /\ written = <<>>
    /\ heap = 0
    /\ tiles = 0
    /\ biasAdds = [n |-> 0, at |-> 0]
    /\ ncalls = 0
    /\ first = NoCall
    /\ last = NoCall

\* No extent of the ConvGemm or of the mega-matrix is zero.
NonEmpty(cg, mm) ==
    /\ OutLen(cg) > 0
    /\ cg.rows > 0 /\ cg.cols > 0
    /\ mm.rows > 0 /\ mm.cols > 0

\* Any ConvGemm the constructor accepts, with at most one dimension of the
\* object or of the mega-matrix off by one, evaluated once.
Init ==
    \E fmt \in DataFormat, group \in Dims, batch \in Dims, m \in Dims, k \in Dims,
       n \in Dims, f \in Faults, seed \in Seeds, hasBias \in BOOLEAN :
        LET cg == new(fmt, group, batch, m, k, n, f, seed, {}, hasBias)
        IN  /\ NonEmpty(cg, Mega(cg, f, seed, {}))
            /\ InitVars(cg, Mega(cg, f, seed, {}))

Next == Eval({mega_matrix}, 1) \/ Tile \/ AddBias \/ Return

Spec == Init /\ [][Next]_vars

\* ---------------------------------------------------------------- several calls

\* The tiles of batch index b, and the tiles of group gg.
BatchTiles(cg, b) == {gg + b * cg.group : gg \in 0..(cg.group - 1)}
GroupTiles(cg, gg) == {gg + b * cg.group : b \in 0..(cg.n_dim - 1)}

\* A ConvGemm whose shapes agree, as the convolution operator builds it.
Sound(fmt, group, batch, m, k, n, kp, hasBias) ==
    new(fmt, group, batch, m, k, n, NoFault, 0, kp, hasBias)

InitSound ==
    \E fmt \in DataFormat, group \in Dims, batch \in Dims, m \in Dims, k \in Dims,
       n \in Dims, hasBias \in BOOLEAN :
        LET cg == Sound(fmt, group, batch, m, k, n, {}, hasBias)
        IN  InitVars(cg, Mega(cg, NoFault, 0, {}))

\* Mega-matrices for cg that differ in the columns of at most one batch index.
BatchInputs(cg) ==
    {Mega(cg, NoFault, 0, {})} \cup
    {Mega(cg, NoFault, 0, BatchTiles(cg, b)) : b \in 0..(cg.n_dim - 1)}

\* Mega-matrices for cg that differ in the columns of at most one group.
GroupInputs(cg) ==
    {Mega(cg, NoFault, 0, {})} \cup
    {Mega(cg, NoFault, 0, GroupTiles(cg, gg)) : gg \in 0..(cg.group - 1)}

\* cg with the other data format.
OtherLayout(cg) ==
    {Sound(fmt, cg.group, cg.n_dim, cg.m, cg.k, cg.n, {}, cg.bias.some) :
        fmt \in DataFormat \ {cg.fmt}}

\* cg with other weights in the kernel rows of at most one group.
OtherWeights(cg) ==
    {Sound(cg.fmt, cg.group, cg.n_dim, cg.m, cg.k, cg.n, kp, cg.bias.some) :
        kp \in {{}} \cup {{gg} : gg \in 0..(cg.group - 1)}}

\* ConvGemm::new again: the next evaluation is of another value.
Rebuild(others) ==
    /\ pc = "ok"
    /\ ncalls < 2
    /\ self' \in others
    /\ pc' = "idle"
    /\ UNCHANGED <<mega_matrix, i, g, output, c_panel, written, heap, tiles,
                   biasAdds, calls>>

\* One ConvGemm evaluated up to MaxCalls times, on inputs that differ by batch.
NextCalls == Eval(BatchInputs(self), MaxCalls) \/ Tile \/ AddBias \/ Return
SpecCalls == InitSound /\ [][NextCalls]_vars

\* The same convolution evaluated in one data format, then in the other.
NextLayout == Rebuild(OtherLayout(self)) \/ Eval({mega_matrix}, 2) \/ Tile
              \/ AddBias \/ Return
SpecLayout == InitSound /\ [][NextLayout]_vars

\* Two evaluations whose kernels and inputs differ by group.
NextGroup == Rebuild(OtherWeights(self)) \/ Eval(GroupInputs(self), 2) \/ Tile
             \/ AddBias \/ Return
SpecGroup == InitSound /\ [][NextGroup]_vars

\* ---------------------------------------------------------------- properties

\* The shape contract of an evaluation (spec 3 and 4.1): the output shape
\* reflects the batch count, m channels per group and n positions, the kernel
\* is (m * group, k), and the mega-matrix has at least k rows and exactly
\* n * group * batch columns.
Contract(cg, mm) ==
    /\ cg.full_output_shape.c = cg.m * cg.group
    /\ cg.full_output_shape.n = cg.n_dim
    /\ cg.full_output_shape.s = cg.n
    /\ cg.rows = cg.m * cg.group
    /\ cg.cols = cg.k
    /\ mm.rows >= cg.k
    /\ mm.cols = cg.n * cg.group * cg.n_dim

\* Element (row, col) of the kernel and of the mega-matrix, as matrices.
KernelAt(cg, row, col) == cg.kernel[row * cg.cols + col]
MegaAt(mm, row, col) == mm.data[row * mm.cols + col]

\* Sum over kk of kernel[row, kk] * mega[kk, col].
RECURSIVE Product(_, _, _, _, _)
Product(cg, mm, row, col, kk) ==
    IF kk = cg.k THEN 0
    ELSE KernelAt(cg, row, kk) * MegaAt(mm, kk, col) + Product(cg, mm, row, col, kk + 1)

Batches(cg) == 0..(cg.n_dim - 1)
Groups(cg) == 0..(cg.group - 1)
Channels(cg) == 0..(cg.full_output_shape.c - 1)
Positions(cg) == 0..(cg.full_output_shape.s - 1)

\* C1: under the shape contract conv_gemm returns an output, and its element
\* at (batch b, channel gg * m + r, position s) is the sum over kk of
\* kernel[gg * m + r, kk] * mega_matrix[kk, n * (gg + b * group) + s], plus
\* the bias of that channel when there is a bias.
C1_TileAddressing ==
    Contract(self, mega_matrix) =>
        /\ pc \notin {"panic", "err", "segv"}
        /\ pc = "ok" =>
            \A b \in Batches(self), gg \in Groups(self), r \in 0..(self.m - 1),
               s \in 0..(self.n - 1) :
                last.out[Offset(self, b, gg * self.m + r, s)] =
                    Product(self, mega_matrix, gg * self.m + r,
                            self.n * (gg + b * self.group) + s, 0)
                    + (IF self.bias.some THEN self.bias.data[gg * self.m + r] ELSE 0)

C1_Witness ==
    /\ Contract(self, mega_matrix)
    /\ pc = "ok"
    /\ self.group >= 2 /\ self.n_dim >= 2 /\ self.m >= 2 /\ self.k >= 2 /\ self.n >= 2
    /\ self.bias.some

C3_BiasOnceAfterTiles ==
    /\ [](/\ biasAdds.n > 0 =>
                /\ biasAdds.n = 1
                /\ self.bias.some
                /\ biasAdds.at = self.n_dim * self.group
                /\ tiles = biasAdds.at
          /\ pc \in {"ret", "ok"} =>
                biasAdds.n = (IF self.bias.some THEN 1 ELSE 0))
    /\ [][(pc = "bias" /\ ~self.bias.some) => output' = output]_vars

C3_Witness ==
    /\ pc = "ok"
    /\ self.bias.some
    /\ biasAdds.n = 1
    /\ tiles >= 4

\* C4, as claimed: a ConvGemm with m * group different from the channel
\* extent of full_output_shape never gets to return an output.
C4_ChannelMismatchRejected ==
    self.m * self.group # self.full_output_shape.c => pc # "ok"

\* C5, as claimed: an evaluation whose mega-matrix, kernel and m, k, n do not
\* fit together never returns an output.
C5_ShapeMismatchRejected ==
    (\/ mega_matrix.cols # self.n * self.group * self.n_dim
     \/ mega_matrix.rows < self.k
     \/ self.cols # self.k
     \/ self.rows # self.m * self.group) => pc # "ok"

\* C6, as claimed: in either data format, when the panel's m * n elements are
\* not as many as the elements of a tile's output view, nothing is copied
\* and no output is returned.
C6_PanelMismatchFatal ==
    self.m * self.n # SubLen(self) => (tiles = 0 /\ pc # "ok")

Finished2 == ncalls >= 2 /\ first.status = "ok" /\ last.status = "ok"

SameShape(a, b) ==
    /\ a.group = b.group /\ a.n_dim = b.n_dim
    /\ a.m = b.m /\ a.k = b.k /\ a.n = b.n
    /\ a.full_output_shape = b.full_output_shape
    /\ a.rows = b.rows /\ a.cols = b.cols

\* C7: the scatter of either data format puts panel element (r, s) of tile
\* (i, g) at (batch i, channel g * co_per_group + r, position s); and two
\* evaluations that differ in the data format only return outputs that hold
\* the same value at every (batch, channel, position).
C7_LayoutEquivalence ==
    /\ \A ii \in Batches(self), gg \in Groups(self), x \in 0..(CopyLen(self) - 1) :
        LET p == PanelSrc(self, x)
        IN  SubCell(self, ii, gg, x) =
                Offset(self, ii, gg * co_per_group(self) + (p \div self.n), p % self.n)
    /\ (/\ Finished2
        /\ first.self.fmt # last.self.fmt
        /\ SameShape(first.self, last.self)
        /\ first.self.kernel = last.self.kernel
        /\ first.self.bias = last.self.bias
        /\ first.mega = last.mega) =>
            \A b \in Batches(self), c \in Channels(self), s \in Positions(self) :
                first.out[Offset(first.self, b, c, s)] =
                    last.out[Offset(last.self, b, c, s)]

C7_Witness ==
    /\ Finished2
    /\ first.self.fmt = "NCHW" /\ last.self.fmt = "NHWC"
    /\ first.mega = last.mega
    /\ self.group >= 2 /\ self.n_dim >= 2 /\ self.m >= 2 /\ self.n >= 2

\* Do two finished evaluations agree on all that belongs to group gg: its
\* kernel rows, the mega-matrix columns of its tiles, and the bias?
SameGroupInputs(a, b, gg) ==
    /\ SameShape(a.self, b.self)
    /\ a.self.fmt = b.self.fmt
    /\ a.self.bias = b.self.bias
    /\ a.mega.rows = b.mega.rows /\ a.mega.cols = b.mega.cols
    /\ \A r \in 0..(a.self.m - 1), kk \in 0..(a.self.k - 1) :
        KernelAt(a.self, gg * a.self.m + r, kk) = KernelAt(b.self, gg * b.self.m + r, kk)
    /\ \A t \in GroupTiles(a.self, gg), s \in 0..(a.self.n - 1),
          kk \in 0..(a.mega.rows - 1) :
        MegaAt(a.mega, kk, a.self.n * t + s) = MegaAt(b.mega, kk, b.self.n * t + s)

\* C8: two evaluations that agree on the kernel rows of group gg, on the
\* mega-matrix columns of the tiles of group gg and on the bias return the
\* same values in the channels of group gg, whatever the other groups' kernel
\* rows and columns hold.
C8_GroupIsolation ==
    Finished2 =>
        \A gg \in Groups(self) :
            SameGroupInputs(first, last, gg) =>
                \A b \in Batches(self), r \in 0..(co_per_group(self) - 1),
                   s \in Positions(self) :
                    first.out[Offset(first.self, b, gg * co_per_group(self) + r, s)] =
                        last.out[Offset(last.self, b, gg * co_per_group(self) + r, s)]

\* Two evaluations that agree on group gg and differ in another group, in the
\* kernel and in the mega-matrix.
C8_Witness ==
    /\ Finished2
    /\ self.group >= 2 /\ self.n_dim >= 2
    /\ \E gg \in Groups(self) : SameGroupInputs(first, last, gg)
    /\ first.self.kernel # last.self.kernel
    /\ first.mega # last.mega

\* Do two finished evaluations agree on the kernel, the bias and the
\* mega-matrix columns [n * group * b, n * group * (b + 1))?
SameBatchInputs(a, b, bi) ==
    /\ a.self = b.self
    /\ a.mega.rows = b.mega.rows /\ a.mega.cols = b.mega.cols
    /\ \A col \in (a.self.n * a.self.group * bi)..(a.self.n * a.self.group * (bi + 1) - 1),
          kk \in 0..(a.mega.rows - 1) :
        MegaAt(a.mega, kk, col) = MegaAt(b.mega, kk, col)

\* C9: two evaluations of a ConvGemm on mega-matrices that agree on the
\* columns of batch index b return the same output slice at batch index b.
C9_BatchIsolation ==
    Finished2 =>
        \A b \in Batches(self) :
            SameBatchInputs(first, last, b) =>
                \A c \in Channels(self), s \in Positions(self) :
                    first.out[Offset(self, b, c, s)] = last.out[Offset(self, b, c, s)]

C9_Witness ==
    /\ Finished2
    /\ self.n_dim >= 2 /\ self.group >= 2
    /\ first.mega # last.mega
    /\ \E b \in Batches(self) : SameBatchInputs(first, last, b)

\* C10: no step of an evaluation changes a field of the ConvGemm; an
\* evaluation starts from an output in which nothing is assigned yet; and an
\* evaluation of the same mega-matrix as the first one ends as the first one
\* did, with an equal output, whatever was evaluated in between.
C10_NoCrossCallState ==
    /\ [][self' = self]_vars
    /\ [][(pc # "loop" /\ pc' = "loop") =>
            /\ tiles' = 0
            /\ DOMAIN output' = 0..(OutLen(self) - 1)
            /\ DOMAIN c_panel' = 0..(self.m * self.n - 1)
            /\ \A c \in DOMAIN written' : written'[c] = 0]_vars
    /\ []((ncalls >= 2 /\ first.self = last.self /\ first.mega = last.mega) =>
            (first.status = last.status /\ first.out = last.out))

\* A third evaluation, of the mega-matrix of the first.
C10_Witness ==
    /\ ncalls >= 3
    /\ pc = "ok"
    /\ first.mega = last.mega
    /\ self.n_dim >= 2 /\ self.group >= 2

=============================================================================
